---- MODULE Spec2Model ----
(***************************************************************************)
(* Model of src/codegen/general.rs: the emitters that write the fixed      *)
(* parts of a generated binding file (banner, imports, glib_wrapper!       *)
(* blocks, cfg gates, Default impl) to a line-oriented sink.               *)
(*                                                                         *)
(* A string is a sequence of atoms (TLA+ strings); format! is the          *)
(* concatenation of its literal pieces and its arguments.  A line is the   *)
(* string handed to one writeln!.  The sink is the sequence of lines it    *)
(* accepted.                                                               *)
(***************************************************************************)
EXTENDS Integers, Sequences, FiniteSets, TLC

VARIABLES env, sink, call

vars == <<env, sink, call>>

\* ---------------------------------------------------------------- bounds
MaxVersion == 3
MaxImports == 2
MaxParents == 2
MaxFunctions == 2
MaxIndent == 1
MaxVec == 1

\* ------------------------------------------------------ external values
\* namespaces::MAIN, the id of the namespace being generated
MAIN == 1

\* Option<T>
None == <<>>
Some(x) == <<x>>

Versions == 1..MaxVersion
OptVersions == {None} \cup {Some(v) : v \in Versions}

BOOL == {TRUE, FALSE}

\* all sequences over S of length at most n
RECURSIVE SeqsUpTo(_, _)
SeqsUpTo(S, n) ==
    IF n = 0 THEN {<<>>}
    ELSE LET shorter == SeqsUpTo(S, n - 1)
         IN  shorter \cup {Append(s, x) : s \in {t \in shorter : Len(t) = n - 1}, x \in S}

\* The next definitions stand for items that general.rs imports and only
\* uses (writer::primitives::tabs, Version::to_cfg, namespaces::MAIN, the
\* library and namespace tables, GStatus::ignored, Visibility::hidden).  Of
\* each only what general.rs relies on is kept: tabs gives one unit per
\* level, to_cfg gives a text that carries the version.

\* writer::primitives::tabs
TAB == "    "
tabs(indent) == [i \in 1..indent |-> TAB]

\* Version::to_cfg: the cfg expression of a version
to_cfg(v) == <<"feature = \"v", ToString(v), "\"">>

\* ------------------------------------------------------------- the sink
\* A writer during one call: the lines accepted so far, the number of
\* writes attempted by the call, whether a write has returned an error,
\* and the attempt (0: none) at which the underlying medium refuses.
Writer(out, failAt) == [out |-> out, attempts |-> 0, err |-> FALSE, failAt |-> failAt]

\* writeln!(w, ...): one write attempt
writeln(w, line) ==
    IF w.attempts + 1 = w.failAt
    THEN [w EXCEPT !.attempts = @ + 1, !.err = TRUE]
    ELSE [w EXCEPT !.attempts = @ + 1, !.out = Append(@, line)]

\* a variant that keeps going after an error, as if the result were dropped
try_ignoring(w, line) == writeln(w, line)

\* try!(writeln!(w, ...)) inside a function body: once an error has been
\* returned, no later statement of the body runs
try(w, line) == IF w.err THEN w ELSE writeln(w, line)

\* consecutive try!(writeln!(...)) statements
RECURSIVE try_all(_, _)
try_all(w, lines) ==
    IF lines = <<>> THEN w ELSE try_all(try(w, Head(lines)), Tail(lines))

Result(w) == IF w.err THEN "Err" ELSE "Ok"

\* ----------------------------------------------------------- the gates
version_condition_string_ge(e, version, commented, indent) ==
    IF version # None /\ version[1] >= e.config.min_cfg_version
    THEN LET comment == IF commented THEN <<"//">> ELSE <<>>
         IN  Some(tabs(indent) \o comment \o <<"#[cfg(any(">> \o to_cfg(version[1])
                  \o <<", feature = \"dox\"))]">>)
    ELSE None

version_condition_string(e, version, commented, indent) ==
    IF version # None /\ version[1] > e.config.min_cfg_version
    THEN LET comment == IF commented THEN <<"//">> ELSE <<>>
         IN  Some(tabs(indent) \o comment \o <<"#[cfg(any(">> \o to_cfg(version[1])
                  \o <<", feature = \"dox\"))]">>)
    ELSE None

version_condition(w, e, version, commented, indent) ==
    LET s == version_condition_string(e, version, commented, indent)
    IN  IF s # None THEN try(w, s[1]) ELSE w

not_version_condition_filtered(w, version, commented, indent) ==
    IF version # None /\ version[1] > env.config.min_cfg_version
    THEN LET comment == IF commented THEN <<"//">> ELSE <<>>
             s == tabs(indent) \o comment \o <<"#[cfg(any(not(">> \o to_cfg(version[1])
                      \o <<"), feature = \"dox\"))]">>
         IN  try(w, s)
    ELSE w

not_version_condition(w, version, commented, indent) ==
    IF version # None
    THEN LET comment == IF commented THEN <<"//">> ELSE <<>>
             s == tabs(indent) \o comment \o <<"#[cfg(any(not(">> \o to_cfg(version[1])
                      \o <<"), feature = \"dox\"))]">>
         IN  try(w, s)
    ELSE w

cfg_condition_string(cfg, commented, indent) ==
    IF cfg # None
    THEN LET comment == IF commented THEN <<"//">> ELSE <<>>
         IN  Some(tabs(indent) \o comment \o <<"#[cfg(any(", cfg[1], ", feature = \"dox\"))]">>)
    ELSE None

cfg_condition(w, cfg, commented, indent) ==
    LET s == cfg_condition_string(cfg, commented, indent)
    IN  IF s # None THEN try(w, s[1]) ELSE w

doc_hidden(w, is_hidden, comment_prefix, indent) ==
    IF is_hidden
    THEN try(w, tabs(indent) \o comment_prefix \o <<"#[doc(hidden)]">>)
    ELSE w

write_vec(w, v) == try_all(w, v)

\* -------------------------------------------------------------- banner
VERSION == "0.0.1"

start_comments(w, conf) ==
    try_all(w, << <<"// This file was generated by gir (", VERSION,
                    ") from gir-files (", conf.girs_version, ")">>,
                  <<"// DO NOT EDIT">> >>)

\* ------------------------------------------------------------- imports
\* a loop that drops the entries whose version is within the baseline
RECURSIVE uses_loop_skipping(_, _, _)
uses_loop_skipping(w, e, entries) ==
    IF entries = <<>> THEN w
    ELSE LET name == Head(entries).name
             version == Head(entries).version
             w1 == version_condition(w, e, version, FALSE, 0)
             w2 == IF version # None /\ version[1] <= e.config.min_cfg_version
                   THEN w1
                   ELSE IF e.namespaces.glib_ns_id = MAIN /\ name = "glib_ffi"
                   THEN try(w1, <<"use ffi as ", name, ";">>)
                   ELSE try(w1, <<"use ", name, ";">>)
         IN  uses_loop_skipping(w2, e, Tail(entries))

\* a loop that writes the gate after the import line
RECURSIVE uses_loop_gate_after(_, _, _)
uses_loop_gate_after(w, e, entries) ==
    IF entries = <<>> THEN w
    ELSE LET name == Head(entries).name
             version == Head(entries).version
             w1 == IF e.namespaces.glib_ns_id = MAIN /\ name = "glib_ffi"
                   THEN try(w, <<"use ffi as ", name, ";">>)
                   ELSE try(w, <<"use ", name, ";">>)
             w2 == IF w1.err THEN w1 ELSE version_condition(w1, e, version, FALSE, 0)
         IN  uses_loop_gate_after(w2, e, Tail(entries))

\* the body of the for loop, for the entries still to be visited
RECURSIVE uses_loop(_, _, _)
uses_loop(w, e, entries) ==
    IF entries = <<>> THEN w
    ELSE LET name == Head(entries).name
             version == Head(entries).version
             w1 == version_condition(w, e, version, FALSE, 0)
             w2 == IF e.namespaces.glib_ns_id = MAIN /\ name = "glib_ffi"
                   THEN try(w1, <<"use ffi as ", name, ";">>)
                   ELSE try(w1, <<"use ", name, ";">>)
         IN  uses_loop(w2, e, Tail(entries))

uses(w, e, imports) == uses_loop(try(w, <<>>), e, imports)

\* ------------------------------------------------------ type registry
\* env.namespaces[ns_id].crate_name
crate_name(ns_id) == IF ns_id = MAIN THEN "main" ELSE IF ns_id = 2 THEN "gio" ELSE "gdk"

\* env.library: the types the supertypes are drawn from
TypeIds == {[ns_id |-> MAIN, id |-> 0], [ns_id |-> MAIN, id |-> 1], [ns_id |-> 2, id |-> 0]}

library_type(type_id) ==
    IF type_id.ns_id = MAIN
    THEN (IF type_id.id = 0 THEN [name |-> "Base", glib_name |-> Some("GBase")]
                            ELSE [name |-> "Widget", glib_name |-> Some("GWidget")])
    ELSE [name |-> "Other", glib_name |-> Some("GOther")]

\* env.library.type_(type_id).get_glib_name().unwrap()
get_glib_name(type_id) == library_type(type_id).glib_name[1]

\* GStatus::ignored
ignored(status) == status = "Ignore"

\* Visibility::hidden
hidden(visibility) == visibility = "Hidden"

\* ------------------------------------------------------ glib_wrapper!
\* the string of one supertype (the closure of the map)
parent_string(p) ==
    IF p.type_id.ns_id = MAIN
    THEN <<p.name>>
    ELSE <<crate_name(p.type_id.ns_id), "::", p.name, " => ",
           crate_name(p.type_id.ns_id), "_ffi::", get_glib_name(p.type_id)>>

\* parents.iter().filter(|p| !p.status.ignored())
RECURSIVE filter_not_ignored(_)
filter_not_ignored(ps) ==
    IF ps = <<>> THEN <<>>
    ELSE IF ignored(Head(ps).status) THEN filter_not_ignored(Tail(ps))
    ELSE <<Head(ps)>> \o filter_not_ignored(Tail(ps))

\* external_parents: set by the map closure, which runs only on the
\* supertypes the filter lets through
external_parents_unfiltered(ps) ==
    \E i \in 1..Len(ps) : ps[i].type_id.ns_id # MAIN

external_parents_of(ps) ==
    \E i \in 1..Len(filter_not_ignored(ps)) : filter_not_ignored(ps)[i].type_id.ns_id # MAIN

\* [String]::join
RECURSIVE join(_, _)
join(ss, sep) ==
    IF ss = <<>> THEN <<>>
    ELSE IF Len(ss) = 1 THEN Head(ss)
    ELSE Head(ss) \o <<sep>> \o join(Tail(ss), sep)

define_object_type_all_local_first(w, e, type_name, glib_name, glib_class_name, glib_func_name, parents_in) ==
    LET external_parents == external_parents_of(parents_in)
        kept == filter_not_ignored(parents_in)
        parents == [i \in 1..Len(kept) |-> parent_string(kept[i])]
        separator == IF glib_class_name # None THEN <<", ">> ELSE <<>>
        class_name == IF glib_class_name # None THEN <<"ffi::", glib_class_name[1]>> ELSE <<>>
        decl == <<"\tpub struct ", type_name, "(Object<ffi::", glib_name>>
                    \o separator \o class_name
        w1 == try_all(w, << <<>>, <<"glib_wrapper! {">> >>)
        w2 == IF parents = <<>>
              THEN try(w1, decl \o <<">);">>)
              ELSE IF external_parents /\ \A i \in 1..Len(kept) : kept[i].type_id.ns_id # MAIN
              THEN try(try_all(try(w1, decl \o <<">): [">>),
                               [i \in 1..Len(parents) |-> <<"\t\t">> \o parents[i] \o <<",">>]),
                       <<"\t];">>)
              ELSE try(w1, decl \o <<">): ">> \o join(parents, ", ") \o <<";">>)
    IN  try_all(w2, << <<>>,
                       <<"\tmatch fn {">>,
                       <<"\t\tget_type => || ffi::", glib_func_name, "(),">>,
                       <<"\t}">>,
                       <<"}">> >>)

define_object_type(w, e, type_name, glib_name, glib_class_name, glib_func_name, parents_in) ==
    LET external_parents == external_parents_of(parents_in)
        kept == filter_not_ignored(parents_in)
        parents == [i \in 1..Len(kept) |-> parent_string(kept[i])]
        separator == IF glib_class_name # None THEN <<", ">> ELSE <<>>
        class_name == IF glib_class_name # None THEN <<"ffi::", glib_class_name[1]>> ELSE <<>>
        decl == <<"\tpub struct ", type_name, "(Object<ffi::", glib_name>>
                    \o separator \o class_name
        w1 == try_all(w, << <<>>, <<"glib_wrapper! {">> >>)
        w2 == IF parents = <<>>
              THEN try(w1, decl \o <<">);">>)
              ELSE IF external_parents
              THEN try(try_all(try(w1, decl \o <<">): [">>),
                               [i \in 1..Len(parents) |-> <<"\t\t">> \o parents[i] \o <<",">>]),
                       <<"\t];">>)
              ELSE try(w1, decl \o <<">): ">> \o join(parents, ", ") \o <<";">>)
    IN  try_all(w2, << <<>>,
                       <<"\tmatch fn {">>,
                       <<"\t\tget_type => || ffi::", glib_func_name, "(),">>,
                       <<"\t}">>,
                       <<"}">> >>)

define_boxed_type_always_get_type(w, type_name, glib_name, copy_fn, free_fn, get_type_fn) ==
    try_all(w, << <<>>,
                  <<"glib_wrapper! {">>,
                  <<"\tpub struct ", type_name, "(Boxed<ffi::", glib_name, ">);">>,
                  <<>>,
                  <<"\tmatch fn {">>,
                  <<"\t\tcopy => |ptr| ffi::", copy_fn, "(mut_override(ptr)),">>,
                  <<"\t\tfree => |ptr| ffi::", free_fn, "(ptr),">>,
                  <<"\t\tget_type => || ffi::">> \o get_type_fn \o <<"(),">>,
                  <<"\t}">>,
                  <<"}">> >>)

define_boxed_type(w, type_name, glib_name, copy_fn, free_fn, get_type_fn) ==
    LET w1 == try_all(w, << <<>>,
                            <<"glib_wrapper! {">>,
                            <<"\tpub struct ", type_name, "(Boxed<ffi::", glib_name, ">);">>,
                            <<>>,
                            <<"\tmatch fn {">>,
                            <<"\t\tcopy => |ptr| ffi::", copy_fn, "(mut_override(ptr)),">>,
                            <<"\t\tfree => |ptr| ffi::", free_fn, "(ptr),">> >>)
        w2 == IF get_type_fn # None
              THEN try(w1, <<"\t\tget_type => || ffi::", get_type_fn[1], "(),">>)
              ELSE w1
    IN  try_all(w2, << <<"\t}">>, <<"}">> >>)

define_shared_type(w, type_name, glib_name, ref_fn, unref_fn, get_type_fn) ==
    LET w1 == try_all(w, << <<>>,
                            <<"glib_wrapper! {">>,
                            <<"\tpub struct ", type_name, "(Shared<ffi::", glib_name, ">);">>,
                            <<>>,
                            <<"\tmatch fn {">>,
                            <<"\t\tref => |ptr| ffi::", ref_fn, "(ptr),">>,
                            <<"\t\tunref => |ptr| ffi::", unref_fn, "(ptr),">> >>)
        w2 == IF get_type_fn # None
              THEN try(w1, <<"\t\tget_type => || ffi::", get_type_fn[1], "(),">>)
              ELSE w1
    IN  try_all(w2, << <<"\t}">>, <<"}">> >>)

\* ------------------------------------------------------- Default impl
\* the predicate of the find
is_default_new(f) ==
    ~hidden(f.visibility) /\ f.name = "new" /\ f.parameters.rust_parameters = <<>>

\* a scan that stops at the first zero-argument "new", hidden or not
RECURSIVE find_first_named(_)
find_first_named(functions) ==
    IF functions = <<>> THEN None
    ELSE IF Head(functions).name = "new" /\ Head(functions).parameters.rust_parameters = <<>>
    THEN (IF hidden(Head(functions).visibility) THEN None ELSE Some(Head(functions)))
    ELSE find_first_named(Tail(functions))

\* a scan that keeps the last match
RECURSIVE find_last(_)
find_last(functions) ==
    IF functions = <<>> THEN None
    ELSE IF find_last(Tail(functions)) # None THEN find_last(Tail(functions))
    ELSE IF is_default_new(Head(functions)) THEN Some(Head(functions))
    ELSE None

\* functions.iter().find(...): the first match in list order
RECURSIVE find_default_new(_)
find_default_new(functions) ==
    IF functions = <<>> THEN None
    ELSE IF is_default_new(Head(functions)) THEN Some(Head(functions))
    ELSE find_default_new(Tail(functions))

declare_default_from_new(w, e, name, functions) ==
    LET found == find_default_new(functions)
    IN  IF found # None
        THEN LET func == found[1]
                 w1 == try(w, <<>>)
                 w2 == IF w1.err THEN w1 ELSE version_condition(w1, e, func.version, FALSE, 0)
             IN  try_all(w2, << <<"impl Default for ", name, " {">>,
                                <<"    fn default() -> Self {">>,
                                <<"        Self::new()">>,
                                <<"    }">>,
                                <<"}">> >>)
        ELSE w

\* ------------------------------------------------------------- inputs
ImportNames == {"glib_ffi", "alpha", "beta"}

ImportEntries == [name : ImportNames, version : OptVersions]

\* Imports is a map keyed by module name: no name occurs twice
ImportSets ==
    {s \in SeqsUpTo(ImportEntries, MaxImports) :
        \A i, j \in 1..Len(s) : i # j => s[i].name # s[j].name}

StatusedTypeIds ==
    {[type_id |-> t, name |-> library_type(t).name, status |-> st] :
        t \in TypeIds, st \in {"Generate", "Ignore"}}

ParentLists == SeqsUpTo(StatusedTypeIds, MaxParents)

FunctionInfos ==
    {[name |-> "new", visibility |-> vis, parameters |-> [rust_parameters |-> <<>>],
      version |-> ver] : vis \in {"Public", "Hidden"}, ver \in OptVersions}
    \cup {[name |-> "new", visibility |-> "Public",
           parameters |-> [rust_parameters |-> <<"label">>], version |-> None],
          [name |-> "with_label", visibility |-> "Public",
           parameters |-> [rust_parameters |-> <<>>], version |-> None]}

FunctionLists == SeqsUpTo(FunctionInfos, MaxFunctions)

Indents == 0..MaxIndent

\* the attempts at which the medium may refuse, for a call that would make
\* n attempts on a medium that never refuses (0: it never refuses)
FailPoints(w) == 0..(w.attempts)

\* what a call leaves behind
Done(op, w, start, args) ==
    [op |-> op, res |-> Result(w), attempts |-> w.attempts, failAt |-> w.failAt,
     start |-> start, args |-> args]

\* The emitters share nothing but the sink.  A call runs on a file just
\* opened or on one that holds what the banner call left in it, which stands
\* for whatever earlier calls wrote.
CanEmit == call.op \in {"new_file", "start_comments"}

\* ------------------------------------------------------------- actions
Init ==
    /\ env \in [config : [min_cfg_version : Versions, girs_version : {"abc1234"}],
                namespaces : [glib_ns_id : {MAIN, 2}]]
    /\ sink = <<>>
    /\ call = [op |-> "new_file", res |-> "Ok", attempts |-> 0, failAt |-> 0,
               start |-> 0, args |-> <<>>]

\* the caller abandons or finishes the file and opens the next one
NewFile ==
    /\ call.op # "new_file"
    /\ sink' = <<>>
    /\ call' = [op |-> "new_file", res |-> "Ok", attempts |-> 0, failAt |-> 0,
                start |-> 0, args |-> <<>>]
    /\ UNCHANGED env

StartComments ==
    /\ call.op = "new_file"
    /\ \E failAt \in FailPoints(start_comments(Writer(sink, 0), env.config)) :
        LET w == start_comments(Writer(sink, failAt), env.config)
        IN  /\ sink' = w.out
            /\ call' = Done("start_comments", w, Len(sink), <<>>)
    /\ UNCHANGED env

Uses ==
    /\ CanEmit
    /\ \E imports \in ImportSets :
       \E failAt \in FailPoints(uses(Writer(sink, 0), env, imports)) :
        LET w == uses(Writer(sink, failAt), env, imports)
        IN  /\ sink' = w.out
            /\ call' = Done("uses", w, Len(sink), [imports |-> imports])
    /\ UNCHANGED env

DefineObjectType ==
    /\ CanEmit
    /\ \E parents \in ParentLists, glib_class_name \in {None, Some("FooClass")} :
       \E failAt \in FailPoints(define_object_type(Writer(sink, 0), env, "Foo", "GFoo",
                                    glib_class_name, "g_foo_get_type", parents)) :
        LET w == define_object_type(Writer(sink, failAt), env, "Foo", "GFoo",
                                    glib_class_name, "g_foo_get_type", parents)
        IN  /\ sink' = w.out
            /\ call' = Done("define_object_type", w, Len(sink),
                            [type_name |-> "Foo", glib_name |-> "GFoo",
                             glib_class_name |-> glib_class_name,
                             glib_func_name |-> "g_foo_get_type", parents |-> parents])
    /\ UNCHANGED env

DefineBoxedType ==
    /\ CanEmit
    /\ \E get_type_fn \in {None, Some("g_foo_get_type")} :
       \E failAt \in FailPoints(define_boxed_type(Writer(sink, 0), "Foo", "GFoo",
                                    "g_foo_copy", "g_foo_free", get_type_fn)) :
        LET w == define_boxed_type(Writer(sink, failAt), "Foo", "GFoo",
                                   "g_foo_copy", "g_foo_free", get_type_fn)
        IN  /\ sink' = w.out
            /\ call' = Done("define_boxed_type", w, Len(sink),
                            [type_name |-> "Foo", glib_name |-> "GFoo",
                             copy_fn |-> "g_foo_copy", free_fn |-> "g_foo_free",
                             get_type_fn |-> get_type_fn])
    /\ UNCHANGED env

DefineSharedType ==
    /\ CanEmit
    /\ \E get_type_fn \in {None, Some("g_foo_get_type")} :
       \E failAt \in FailPoints(define_shared_type(Writer(sink, 0), "Foo", "GFoo",
                                    "g_foo_ref", "g_foo_unref", get_type_fn)) :
        LET w == define_shared_type(Writer(sink, failAt), "Foo", "GFoo",
                                    "g_foo_ref", "g_foo_unref", get_type_fn)
        IN  /\ sink' = w.out
            /\ call' = Done("define_shared_type", w, Len(sink),
                            [type_name |-> "Foo", glib_name |-> "GFoo",
                             ref_fn |-> "g_foo_ref", unref_fn |-> "g_foo_unref",
                             get_type_fn |-> get_type_fn])
    /\ UNCHANGED env

VersionCondition ==
    /\ CanEmit
    /\ \E version \in OptVersions, commented \in BOOL, indent \in Indents :
       \E failAt \in FailPoints(version_condition(Writer(sink, 0), env, version,
                                                  commented, indent)) :
        LET w == version_condition(Writer(sink, failAt), env, version, commented, indent)
        IN  /\ sink' = w.out
            /\ call' = Done("version_condition", w, Len(sink),
                            [version |-> version, commented |-> commented,
                             indent |-> indent])
    /\ UNCHANGED env

NotVersionCondition ==
    /\ CanEmit
    /\ \E version \in OptVersions, commented \in BOOL, indent \in Indents :
       \E failAt \in FailPoints(not_version_condition(Writer(sink, 0), version,
                                                      commented, indent)) :
        LET w == not_version_condition(Writer(sink, failAt), version, commented, indent)
        IN  /\ sink' = w.out
            /\ call' = Done("not_version_condition", w, Len(sink),
                            [version |-> version, commented |-> commented,
                             indent |-> indent])
    /\ UNCHANGED env

CfgCondition ==
    /\ CanEmit
    /\ \E cfg \in {None, Some("unix")}, commented \in BOOL, indent \in Indents :
       \E failAt \in FailPoints(cfg_condition(Writer(sink, 0), cfg, commented, indent)) :
        LET w == cfg_condition(Writer(sink, failAt), cfg, commented, indent)
        IN  /\ sink' = w.out
            /\ call' = Done("cfg_condition", w, Len(sink),
                            [cfg_condition |-> cfg, commented |-> commented,
                             indent |-> indent])
    /\ UNCHANGED env

DocHidden ==
    /\ CanEmit
    /\ \E is_hidden \in BOOL, comment_prefix \in {<<>>, <<"//">>}, indent \in Indents :
       \E failAt \in FailPoints(doc_hidden(Writer(sink, 0), is_hidden, comment_prefix,
                                           indent)) :
        LET w == doc_hidden(Writer(sink, failAt), is_hidden, comment_prefix, indent)
        IN  /\ sink' = w.out
            /\ call' = Done("doc_hidden", w, Len(sink),
                            [doc_hidden |-> is_hidden, comment_prefix |-> comment_prefix,
                             indent |-> indent])
    /\ UNCHANGED env

WriteVec ==
    /\ CanEmit
    /\ \E v \in SeqsUpTo({<<"a">>, <<"b">>}, MaxVec) :
       \E failAt \in FailPoints(write_vec(Writer(sink, 0), v)) :
        LET w == write_vec(Writer(sink, failAt), v)
        IN  /\ sink' = w.out
            /\ call' = Done("write_vec", w, Len(sink), [v |-> v])
    /\ UNCHANGED env

DeclareDefaultFromNew ==
    /\ CanEmit
    /\ \E functions \in FunctionLists :
       \E failAt \in FailPoints(declare_default_from_new(Writer(sink, 0), env, "Foo",
                                                         functions)) :
        LET w == declare_default_from_new(Writer(sink, failAt), env, "Foo", functions)
        IN  /\ sink' = w.out
            /\ call' = Done("declare_default_from_new", w, Len(sink),
                            [name |-> "Foo", functions |-> functions])
    /\ UNCHANGED env

Next ==
    \/ NewFile
    \/ StartComments
    \/ Uses
    \/ DefineObjectType
    \/ DefineBoxedType
    \/ DefineSharedType
    \/ VersionCondition
    \/ NotVersionCondition
    \/ CfgCondition
    \/ DocHidden
    \/ WriteVec
    \/ DeclareDefaultFromNew

Spec == Init /\ [][Next]_vars

\* ============================================================ properties
\* the lines the last call added to the sink
Written == SubSeq(sink, call.start + 1, Len(sink))

Contains(line, atom) == \E k \in 1..Len(line) : line[k] = atom

FirstAtomIs(line, atom) == line # <<>> /\ line[1] = atom

LastAtomIs(line, atom) == line # <<>> /\ line[Len(line)] = atom

IsPrefix(s, t) == Len(s) <= Len(t) /\ SubSeq(t, 1, Len(s)) = s

Count(lines, P(_)) == Cardinality({k \in 1..Len(lines) : P(lines[k])})

IsPositiveGate(line) == Contains(line, "#[cfg(any(")

IsNegatedGate(line) == Contains(line, "#[cfg(any(not(")

\* ---- C1
\* C1: the positive version gate yields no line exactly when the version is
\* absent or not above the configured baseline; in every other case it
\* yields exactly one line (one write attempt, one line in the sink when
\* the write is accepted), and that line is a positive gate.
C1_PositiveGate ==
    call.op = "version_condition" =>
        LET c == call.args.version
            b == env.config.min_cfg_version
            absent == c = None \/ c[1] <= b
            s == version_condition_string(env, c, call.args.commented, call.args.indent)
        IN  /\ (s = None) <=> absent
            /\ call.attempts = (IF absent THEN 0 ELSE 1)
            /\ call.res = "Ok" => Len(Written) = call.attempts
            /\ \A k \in 1..Len(Written) :
                   IsPositiveGate(Written[k]) /\ Contains(Written[k], ToString(c[1]))

C1_Witness ==
    /\ call.op = "version_condition"
    /\ call.args.version # None
    /\ call.args.version[1] > env.config.min_cfg_version
    /\ call.res = "Ok"
    /\ Len(Written) = 1

\* ---- C2
\* C2: the negated version gate writes exactly one line exactly when a
\* version is supplied, whatever the baseline; for a version within the
\* baseline the positive gate is absent and the negated gate is still
\* written.
C2_NegatedGate ==
    call.op = "not_version_condition" =>
        LET c == call.args.version
            b == env.config.min_cfg_version
        IN  /\ call.attempts = (IF c = None THEN 0 ELSE 1)
            /\ call.res = "Ok" => Len(Written) = call.attempts
            /\ \A k \in 1..Len(Written) :
                   IsNegatedGate(Written[k]) /\ Contains(Written[k], ToString(c[1]))
            /\ (c # None /\ c[1] <= b) =>
                   /\ version_condition_string(env, c, call.args.commented,
                                               call.args.indent) = None
                   /\ call.attempts = 1

C2_Witness ==
    /\ call.op = "not_version_condition"
    /\ call.args.version # None
    /\ call.args.version[1] <= env.config.min_cfg_version
    /\ call.res = "Ok"
    /\ Len(Written) = 1
    /\ IsNegatedGate(Written[1])

\* ---- C3, C4
Qualifies(f) ==
    f.name = "new" /\ f.parameters.rust_parameters = <<>> /\ f.visibility # "Hidden"

ZeroArgNew(f) == f.name = "new" /\ f.parameters.rust_parameters = <<>>

\* [("new", 0 parameters, hidden), ("new", 0 parameters, not hidden)]
HiddenThenPublic(fs) ==
    /\ Len(fs) = 2
    /\ ZeroArgNew(fs[1]) /\ fs[1].visibility = "Hidden"
    /\ ZeroArgNew(fs[2]) /\ fs[2].visibility # "Hidden"

IsDefaultImpl(line) == FirstAtomIs(line, "impl Default for ")

Gated(version) == version # None /\ version[1] > env.config.min_cfg_version

\* C3 as stated: for [hidden "new", public "new"] no default-value block is
\* emitted.
C3_Original ==
    (call.op = "declare_default_from_new" /\ HiddenThenPublic(call.args.functions)) =>
        call.attempts = 0 /\ Written = <<>>

\* C3 amended: for [hidden "new", public "new"] the default-value block is
\* emitted, gated on the version of the second, non-hidden entry: the scan
\* skips the hidden entry instead of stopping at it.
C3_Amended ==
    (call.op = "declare_default_from_new" /\ HiddenThenPublic(call.args.functions)) =>
        /\ call.attempts > 0
        /\ call.res = "Ok" =>
            /\ Count(Written, IsDefaultImpl) = 1
            /\ Count(Written, IsPositiveGate) =
                   (IF Gated(call.args.functions[2].version) THEN 1 ELSE 0)
            /\ \A k \in 1..Len(Written) : IsPositiveGate(Written[k]) =>
                   Contains(Written[k], ToString(call.args.functions[2].version[1]))

C3_Witness ==
    /\ call.op = "declare_default_from_new"
    /\ HiddenThenPublic(call.args.functions)
    /\ Gated(call.args.functions[2].version)
    /\ call.res = "Ok"
    /\ Count(Written, IsDefaultImpl) = 1

\* C4: with no entry that is a non-hidden zero-argument "new" nothing is
\* written and the call succeeds; otherwise one default-value block is
\* written (a blank line, the gate if any, the five lines of the impl), and
\* its gate is the one of the first qualifying entry in list order.
C4_FirstQualifying ==
    call.op = "declare_default_from_new" =>
        LET fs == call.args.functions
            q == {i \in 1..Len(fs) : Qualifies(fs[i])}
        IN  IF q = {}
            THEN call.attempts = 0 /\ call.res = "Ok" /\ Written = <<>>
            ELSE LET first == CHOOSE i \in q : \A j \in q : i <= j
                     gates == IF Gated(fs[first].version) THEN 1 ELSE 0
                 IN  /\ call.attempts > 0
                     /\ Count(Written, IsDefaultImpl) <= 1
                     /\ Count(Written, IsPositiveGate) <= gates
                     /\ \A k \in 1..Len(Written) : IsPositiveGate(Written[k]) =>
                            /\ k = 2
                            /\ Contains(Written[k], ToString(fs[first].version[1]))
                     /\ call.res = "Ok" =>
                            /\ Len(Written) = 6 + gates
                            /\ Written[1] = <<>>
                            /\ Count(Written, IsDefaultImpl) = 1
                            /\ Count(Written, IsPositiveGate) = gates
                            /\ IsDefaultImpl(Written[2 + gates])

\* two qualifying entries whose gates differ: the first one decides
C4_Witness ==
    /\ call.op = "declare_default_from_new"
    /\ Len(call.args.functions) = 2
    /\ Qualifies(call.args.functions[1])
    /\ Qualifies(call.args.functions[2])
    /\ Gated(call.args.functions[1].version)
    /\ ~Gated(call.args.functions[2].version)
    /\ call.res = "Ok"
    /\ Count(Written, IsPositiveGate) = 1

\* ---- C5, C10
\* the supertypes that are not ignored, in list order
Remaining(ps) == SelectSeq(ps, LAMBDA p : p.status # "Ignore")

IsForeign(p) == p.type_id.ns_id # MAIN

HasForeign(ps) == \E i \in 1..Len(ps) : IsForeign(ps[i])

\* the shape of a declaration line
Shape(line) ==
    IF LastAtomIs(line, ">);") THEN "none"
    ELSE IF LastAtomIs(line, ">): [") THEN "bracketed"
    ELSE IF Contains(line, ">): ") /\ LastAtomIs(line, ";") THEN "single"
    ELSE "other"

IsDeclaration(line) == FirstAtomIs(line, "\tpub struct ")

\* C5: an owned-object block has exactly one declaration, in one of three
\* shapes: no inheritance clause when no supertype remains after removing
\* the ignored ones; the bracketed shape with every remaining supertype on
\* its own line, in order, when at least one of them is foreign; a single
\* line with the names joined by ", " when all of them are local.
C5_ObjectShape ==
    (call.op = "define_object_type" /\ call.res = "Ok") =>
        LET rem == Remaining(call.args.parents)
            n == Len(rem)
        IN  /\ Count(Written, IsDeclaration) = 1
            /\ IsDeclaration(Written[3])
            /\ Shape(Written[3]) \in {"none", "bracketed", "single"}
            /\ (rem = <<>>) <=> (Shape(Written[3]) = "none")
            /\ (rem # <<>> /\ HasForeign(rem)) <=> (Shape(Written[3]) = "bracketed")
            /\ (rem # <<>> /\ ~HasForeign(rem)) <=> (Shape(Written[3]) = "single")
            /\ Shape(Written[3]) = "bracketed" =>
                   /\ Len(Written) = 9 + n
                   /\ Written[4 + n] = <<"\t];">>
                   /\ \A i \in 1..n :
                          /\ Contains(Written[3 + i], rem[i].name)
                          /\ LastAtomIs(Written[3 + i], ",")
                          /\ IsForeign(rem[i]) <=> Contains(Written[3 + i], " => ")
            /\ Shape(Written[3]) = "single" =>
                   /\ Len(Written) = 8
                   /\ LET from == Len(Written[3]) - 2 * n
                      IN  /\ Written[3][from] = ">): "
                          /\ \A i \in 1..n :
                                 /\ Written[3][from + 2 * i - 1] = rem[i].name
                                 /\ Written[3][from + 2 * i] =
                                        (IF i = n THEN ";" ELSE ", ")
            /\ Shape(Written[3]) = "none" => Len(Written) = 8

\* [local "Base", foreign "Other"], none ignored: the bracketed shape
C5_Witness ==
    /\ call.op = "define_object_type"
    /\ call.res = "Ok"
    /\ Len(call.args.parents) = 2
    /\ call.args.parents[1].name = "Base" /\ call.args.parents[1].status = "Generate"
    /\ call.args.parents[2].name = "Other" /\ call.args.parents[2].status = "Generate"
    /\ Shape(Written[3]) = "bracketed"
    /\ Contains(Written[4], "Base")
    /\ Contains(Written[5], "Other")

\* C10: an ignored supertype is named nowhere in the block unless the same
\* type is also listed as not ignored, and it has no part in the shape: when
\* every foreign supertype of the list is ignored the declaration is the
\* single line, or has no inheritance clause if nothing else remains, and
\* is never the bracketed shape.
C10_IgnoredFiltered ==
    (call.op = "define_object_type" /\ Len(Written) >= 3) =>
        LET ps == call.args.parents
            rem == Remaining(ps)
        IN  /\ \A i \in 1..Len(ps) :
                   (ps[i].status = "Ignore"
                    /\ \A j \in 1..Len(rem) : rem[j].name # ps[i].name) =>
                       \A k \in 1..Len(Written) : ~Contains(Written[k], ps[i].name)
            /\ (\A i \in 1..Len(ps) : IsForeign(ps[i]) => ps[i].status = "Ignore") =>
                   /\ Shape(Written[3]) # "bracketed"
                   /\ Shape(Written[3]) = (IF rem = <<>> THEN "none" ELSE "single")

\* a local supertype next to an ignored foreign one
C10_Witness ==
    /\ call.op = "define_object_type"
    /\ call.res = "Ok"
    /\ \E i \in 1..Len(call.args.parents) :
           IsForeign(call.args.parents[i]) /\ call.args.parents[i].status = "Ignore"
    /\ \E i \in 1..Len(call.args.parents) :
           ~IsForeign(call.args.parents[i]) /\ call.args.parents[i].status = "Generate"
    /\ \A i \in 1..Len(call.args.parents) :
           IsForeign(call.args.parents[i]) => call.args.parents[i].status = "Ignore"
    /\ Shape(Written[3]) = "single"

\* ---- C6, C9
IsImport(line) == FirstAtomIs(line, "use ") \/ FirstAtomIs(line, "use ffi as ")

ImportLines == SelectSeq(Written, IsImport)

\* C6: when no write fails, uses writes as many import lines as the import
\* set has entries, and the i-th import line names the i-th entry.
C6_ImportLines ==
    (call.op = "uses" /\ call.res = "Ok") =>
        /\ Len(ImportLines) = Len(call.args.imports)
        /\ \A i \in 1..Len(ImportLines) :
               /\ Len(ImportLines[i]) = 3
               /\ ImportLines[i][2] = call.args.imports[i].name
               /\ ImportLines[i][3] = ";"

\* an entry within the baseline, and the alias substitution
C6_Witness ==
    /\ call.op = "uses"
    /\ call.res = "Ok"
    /\ Len(call.args.imports) = 2
    /\ \E i \in 1..2 :
           /\ call.args.imports[i].version # None
           /\ call.args.imports[i].version[1] <= env.config.min_cfg_version
    /\ \E i \in 1..2 : FirstAtomIs(ImportLines[i], "use ffi as ")
    /\ Len(ImportLines) = 2

\* the entry an import line belongs to: the number of import lines up to it
EntryOf(k) == Len(SelectSeq(SubSeq(Written, 1, k), IsImport))

\* C9: in the output of uses every gate line is immediately followed by the
\* import line of the entry it was computed from (a version above the
\* baseline), and the import line of every such entry is immediately
\* preceded by its gate line; the import line of any other entry is not
\* preceded by a gate line.
C9_GateBeforeOwnImport ==
    call.op = "uses" =>
        LET imports == call.args.imports
        IN  \A k \in 1..Len(Written) :
               /\ IsPositiveGate(Written[k]) =>
                      /\ (k < Len(Written) \/ call.res = "Err")
                      /\ k < Len(Written) => IsImport(Written[k + 1])
                      /\ EntryOf(k) + 1 <= Len(imports)
                      /\ Gated(imports[EntryOf(k) + 1].version)
                      /\ Contains(Written[k],
                                  ToString(imports[EntryOf(k) + 1].version[1]))
               /\ IsImport(Written[k]) =>
                      /\ k > 1
                      /\ Gated(imports[EntryOf(k)].version) <=> IsPositiveGate(Written[k - 1])

\* baseline 2 with [(alpha, none), (beta, 3)]
C9_Witness ==
    /\ call.op = "uses"
    /\ call.res = "Ok"
    /\ env.config.min_cfg_version = 2
    /\ call.args.imports = <<[name |-> "alpha", version |-> None],
                             [name |-> "beta", version |-> Some(3)]>>
    /\ Len(Written) = 4
    /\ Written[1] = <<>>
    /\ IsImport(Written[2]) /\ Contains(Written[2], "alpha")
    /\ IsPositiveGate(Written[3]) /\ Contains(Written[3], "3")
    /\ IsImport(Written[4]) /\ Contains(Written[4], "beta")

\* ---- C8
IsCopy(line) == FirstAtomIs(line, "\t\tcopy => |ptr| ffi::")

IsFree(line) == FirstAtomIs(line, "\t\tfree => |ptr| ffi::")

IsGetType(line) == FirstAtomIs(line, "\t\tget_type => || ffi::")

\* C8: the mapping of a boxed type (the lines between "match fn {" and its
\* closing brace) is the copy line then the free line when no type accessor
\* is supplied, and the copy line, the free line, then one get_type line
\* when one is supplied.
C8_BoxedMapping ==
    (call.op = "define_boxed_type" /\ call.res = "Ok") =>
        LET some == call.args.get_type_fn # None
            n == IF some THEN 3 ELSE 2
            mapping == SubSeq(Written, 6, 5 + n)
        IN  /\ Len(Written) = 7 + n
            /\ Written[5] = <<"\tmatch fn {">>
            /\ Written[6 + n] = <<"\t}">>
            /\ IsCopy(mapping[1]) /\ Contains(mapping[1], call.args.copy_fn)
            /\ IsFree(mapping[2]) /\ Contains(mapping[2], call.args.free_fn)
            /\ Count(Written, IsCopy) = 1
            /\ Count(Written, IsFree) = 1
            /\ Count(Written, IsGetType) = (IF some THEN 1 ELSE 0)
            /\ some => IsGetType(mapping[3])
                       /\ Contains(mapping[3], call.args.get_type_fn[1])

C8_Witness ==
    /\ call.op = "define_boxed_type"
    /\ call.res = "Ok"
    /\ call.args.get_type_fn = None
    /\ Count(Written, IsCopy) = 1
    /\ Count(Written, IsFree) = 1
    /\ Count(Written, IsGetType) = 0

\* ---- C7
\* what a call writes to a sink that accepts every line
Plan(c, e) ==
    LET w == Writer(<<>>, 0)
        a == c.args
    IN  CASE c.op = "start_comments" -> start_comments(w, e.config).out
          [] c.op = "uses" -> uses(w, e, a.imports).out
          [] c.op = "define_object_type" ->
                 define_object_type(w, e, a.type_name, a.glib_name, a.glib_class_name,
                                    a.glib_func_name, a.parents).out
          [] c.op = "define_boxed_type" ->
                 define_boxed_type(w, a.type_name, a.glib_name, a.copy_fn, a.free_fn,
                                   a.get_type_fn).out
          [] c.op = "define_shared_type" ->
                 define_shared_type(w, a.type_name, a.glib_name, a.ref_fn, a.unref_fn,
                                    a.get_type_fn).out
          [] c.op = "version_condition" ->
                 version_condition(w, e, a.version, a.commented, a.indent).out
          [] c.op = "not_version_condition" ->
                 not_version_condition(w, a.version, a.commented, a.indent).out
          [] c.op = "cfg_condition" ->
                 cfg_condition(w, a.cfg_condition, a.commented, a.indent).out
          [] c.op = "doc_hidden" ->
                 doc_hidden(w, a.doc_hidden, a.comment_prefix, a.indent).out
          [] c.op = "write_vec" -> write_vec(w, a.v).out
          [] c.op = "declare_default_from_new" ->
                 declare_default_from_new(w, e, a.name, a.functions).out
          [] OTHER -> <<>>

\* C7: a call that returns an error made no write attempt after the failed
\* one, and leaves in the sink what was there before the call followed by
\* the lines it wrote before the failure, unchanged and in order.
C7_FirstFailureAborts ==
    [][call'.res = "Err" =>
          /\ call'.failAt >= 1
          /\ call'.attempts = call'.failAt
          /\ sink' = sink \o SubSeq(Plan(call', env'), 1, call'.failAt - 1)]_vars

\* a block cut short after some of its lines, in a file that had lines
C7_Witness ==
    /\ call.op = "define_object_type"
    /\ call.res = "Err"
    /\ call.failAt = 5
    /\ call.start = 2
    /\ Len(sink) = 6
    /\ Shape(sink[5]) = "bracketed"

====
